---- MODULE Spec2Model ----
(***************************************************************************)
(* Model of the six Claude-Code guard hooks of src/hooks/.  Every hook is  *)
(* a one-shot process: it reads one JSON document from standard input,     *)
(* classifies it and ends with an exit status and text on the two output   *)
(* streams.  One invocation is modelled at a time; the position of the     *)
(* running hook is pc.                                                     *)
(*                                                                         *)
(* Text is modelled as a sequence of tokens.  A token is the literal text  *)
(* fragment it stands for, so the Python string a token sequence denotes   *)
(* is the concatenation of its tokens.  The alphabets are chosen so that   *)
(* every regular expression of the source matches on token boundaries.     *)
(***************************************************************************)
EXTENDS Integers, Sequences, FiniteSets, TLC

(***************************************************************************)
(* Bounds of the model.                                                    *)
(***************************************************************************)
MaxCmdToks == 3
MaxLines == 2
MaxEditToks == 3
MaxTestToks == 2
MaxCommentLines == 3
MaxDocToks == 4

VARIABLES
    hook,       \* the hook script that is running
    stdin,      \* the document on its standard input
    pc,         \* its position in main()
    steps,      \* the code blocks it has run, in order
    opened,     \* whether open(transcript_path) was called
    lines,      \* the lines readlines() returned
    requested,  \* the value check_user_requested_commit returned
    exit_code,  \* the exit status, -1 while running
    stdout,     \* what was printed on standard output
    stderr,     \* what was printed on the error stream
    verdict,    \* the decision of the branch that ended the hook
    previous    \* what an earlier invocation on the same input produced

vars ==
    <<hook, stdin, pc, steps, opened, lines, requested, exit_code, stdout, stderr, verdict,
      previous>>

(***************************************************************************)
(* Generic helpers on token sequences.                                     *)
(***************************************************************************)
SeqsUpTo(S, n) == UNION {[1..k -> S] : k \in 0..n}

Range(s) == {s[i] : i \in 1..Len(s)}

Min(a, b) == IF a < b THEN a ELSE b

\* one printed message: its kind, the text it interpolates, two numbers
Msg(kind, text, a, b) == [kind |-> kind, text |-> text, a |-> a, b |-> b]

(***************************************************************************)
(* Character classes of the tokens (Python's \s, \w and \b).               *)
(***************************************************************************)
Long == "################################################"

\* \s: the token is white space
IsSpace(t) == t \in {" ", "\n"}

\* the first character of the token is a word character (\w)
StartsWord(t) == ~IsSpace(t) /\ t \notin {"--amend", Long}

\* the last character of the token is a word character (\w)
EndsWord(t) == ~IsSpace(t) /\ t # Long

\* len(): the number of characters of a token
TokLen(t) ==
    CASE t = "git" -> 3
      [] t = "commit" -> 6
      [] t = "COMMIT" -> 6
      [] t = "GIT" -> 3
      [] t = "push" -> 4
      [] t = "--amend" -> 7
      [] t = Long -> 48
      [] OTHER -> 1

\* str.lower() of one token
LowerTok(t) ==
    CASE t = "COMMIT" -> "commit"
      [] t = "GIT" -> "git"
      [] t = "Please" -> "please"
      [] OTHER -> t

\* str.lower()
Lower(s) == [i \in 1..Len(s) |-> LowerTok(s[i])]

\* \b at the position before s[i]
BoundaryBefore(s, i) ==
    LET prevWord == i > 1 /\ EndsWord(s[i - 1])
        nextWord == i <= Len(s) /\ StartsWord(s[i])
    IN prevWord # nextWord

(***************************************************************************)
(* A phrase pattern r'\bW1\s+W2 ... Wn\b': words[k] is followed by at      *)
(* least gaps[k] white-space tokens: 1 for \s+, 0 for \s* .  PhraseFrom    *)
(* holds when words[k..] match s from position i on, up to the final \b.   *)
(***************************************************************************)
RECURSIVE PhraseFrom(_, _, _, _, _)
PhraseFrom(s, i, words, gaps, k) ==
    /\ i <= Len(s)
    /\ s[i] = words[k]
    /\ IF k = Len(words)
         THEN BoundaryBefore(s, i + 1)
         ELSE \E j \in (i + 1 + gaps[k])..Len(s) :
                 /\ \A m \in (i + 1)..(j - 1) : IsSpace(s[m])
                 /\ PhraseFrom(s, j, words, gaps, k + 1)

\* re.search of a phrase pattern
SearchPhrase(s, words, gaps) ==
    \E i \in 1..Len(s) : BoundaryBefore(s, i) /\ PhraseFrom(s, i, words, gaps, 1)

(***************************************************************************)
(* block-git-commit.py                                                     *)
(***************************************************************************)
\* EXPLICIT_REQUEST_PATTERNS; the optional group (a\s+)? is the 2nd alternative
EXPLICIT_REQUEST_PATTERNS ==
    << {<< <<"commit">>, <<>> >>},
       {<< <<"push">>, <<>> >>},
       {<< <<"git", "commit">>, <<1>> >>},
       {<< <<"git", "push">>, <<1>> >>},
       {<< <<"create", "pr">>, <<1>> >>, << <<"create", "a", "pr">>, <<1, 1>> >>},
       {<< <<"create", "pull", "request">>, <<1, 0>> >>,
        << <<"create", "a", "pull", "request">>, <<1, 1, 0>> >>},
       {<< <<"merge">>, <<>> >>} >>

\* re.search(EXPLICIT_REQUEST_PATTERNS[n], text)
SearchRequestPattern(n, text) ==
    \E alt \in EXPLICIT_REQUEST_PATTERNS[n] : SearchPhrase(text, alt[1], alt[2])

\* r'\bgit\s+.*--amend\b': '.' does not match a newline
SearchGitAmend(s) ==
    \E i \in 1..Len(s) : \E j \in (i + 2)..Len(s) : \E k \in j..Len(s) :
          /\ s[i] = "git"
          /\ BoundaryBefore(s, i)
          /\ \A m \in (i + 1)..(j - 1) : IsSpace(s[m])
          /\ \A m \in j..(k - 1) : s[m] # "\n"
          /\ s[k] = "--amend"
          /\ BoundaryBefore(s, k + 1)

\* git_patterns and the loop over them; re.IGNORECASE folds the case of command
is_git_commit_push(command) ==
    \/ SearchPhrase(Lower(command), <<"git", "commit">>, <<1>>)
    \/ SearchPhrase(Lower(command), <<"git", "push">>, <<1>>)
    \/ SearchGitAmend(Lower(command))

(***************************************************************************)
(* JSON values of the transcript.  A line of the file is unparsable text,  *)
(* a JSON value that is no object, or an object with an optional type and  *)
(* an optional message.  Absent marks a key the object does not have.      *)
(***************************************************************************)
Absent == "<absent>"

\* dict.get(key, default)
Get(v, default) == IF v = Absent THEN default ELSE v

\* values of message.content
NoContent == [t |-> "absent", text |-> <<>>, items |-> <<>>]
StrContent(text) == [t |-> "str", text |-> text, items |-> <<>>]
NumContent == [t |-> "num", text |-> <<>>, items |-> <<>>]
ListContent(items) == [t |-> "list", text |-> <<>>, items |-> items]

\* the blocks of a content list: an object with a text, or a bare string
TextBlock(text) == [t |-> "dict", text |-> text]
StrBlock(text) == [t |-> "str", text |-> text]

\* values of message: absent, an object with a content, or a bare string
NoMessage == [t |-> "absent", content |-> NoContent]
DictMessage(content) == [t |-> "dict", content |-> content]
StrMessage(text) == [t |-> "str", content |-> StrContent(text)]

BadLine == [json |-> "invalid", type |-> Absent, message |-> NoMessage]
NonObjectLine == [json |-> "nonobject", type |-> Absent, message |-> NoMessage]
Record(type, message) == [json |-> "object", type |-> type, message |-> message]

\* message texts
PleaseCommit == <<"please", " ", "commit", " ", "this">>
UpperCommit == <<"Please", " ", "COMMIT">>
Hello == <<"hello">>
Recommit == <<"re", "commit">>

TranscriptLines ==
    { BadLine,
      NonObjectLine,
      Record("user", DictMessage(StrContent(PleaseCommit))),
      Record("assistant", DictMessage(StrContent(PleaseCommit))),
      Record("user", DictMessage(StrContent(Hello))),
      Record("user", DictMessage(StrContent(Recommit))),
      Record("human", DictMessage(ListContent(<<TextBlock(Hello), TextBlock(PleaseCommit)>>))),
      Record("user_message", DictMessage(StrContent(UpperCommit))),
      Record("user", DictMessage(ListContent(<<StrBlock(PleaseCommit)>>))),
      Record("user", DictMessage(NumContent)),
      Record("user", StrMessage(PleaseCommit)),
      Record("user", NoMessage),
      Record(Absent, DictMessage(StrContent(PleaseCommit))) }

\* the transcript file: missing, not permitted, or readable with its lines
Files ==
    {[status |-> st, lines |-> <<>>] : st \in {"missing", "denied"}}
        \cup {[status |-> "ok", lines |-> ls] : ls \in SeqsUpTo(TranscriptLines, MaxLines)}

\* ' '.join(block.get('text', '') for block in content if isinstance(block, dict))
RECURSIVE JoinBlocks(_)
JoinBlocks(items) ==
    LET dicts == SelectSeq(items, LAMBDA b : b.t = "dict")
    IN IF Len(dicts) = 0 THEN <<>>
       ELSE IF Len(dicts) = 1 THEN dicts[1].text
       ELSE dicts[1].text \o <<" ">> \o JoinBlocks(Tail(dicts))

\* lines 71-79: the content of a record, after the list case
ExtractContent(line) ==
    LET content == IF line.message.t = "dict" THEN line.message.content
                   ELSE StrContent(<<>>)
    IN IF content.t = "absent" THEN StrContent(<<>>)
       ELSE IF content.t = "list" THEN StrContent(JoinBlocks(content.items))
       ELSE content

\* line 64
IsUserType(msg_type) == msg_type \in {"human", "user", "user_message"}

\* lines 87-91: the first pattern found in content_lower, 0 when there is none
FirstRequestPattern(content_lower) ==
    LET hits == {n \in 1..Len(EXPLICIT_REQUEST_PATTERNS) : SearchRequestPattern(n, content_lower)}
    IN IF hits = {} THEN 0 ELSE CHOOSE n \in hits : \A m \in hits : n <= m

\* lines 55-91: one iteration of the loop: "raise" (AttributeError of
\* message.get on a value that is no object), "skip" (continue) or "match"
ScanLine(line) ==
    IF line.json = "invalid" THEN [res |-> "skip", pattern |-> 0, user |-> 0]
    ELSE IF line.json = "nonobject" THEN [res |-> "raise", pattern |-> 0, user |-> 0]
    ELSE IF ~IsUserType(Get(line.type, "<no type>")) THEN [res |-> "skip", pattern |-> 0, user |-> 0]
    ELSE IF ExtractContent(line).t # "str" THEN [res |-> "skip", pattern |-> 0, user |-> 1]
    ELSE LET n == FirstRequestPattern(Lower(ExtractContent(line).text))
         IN IF n = 0 THEN [res |-> "skip", pattern |-> 0, user |-> 1]
            ELSE [res |-> "match", pattern |-> n, user |-> 1]

\* lines 53-103: the loop from line i on.  seen is message_types_seen and
\* found is user_messages_found.
RECURSIVE ScanFrom(_, _, _, _)
ScanFrom(ls, i, seen, found) ==
    IF i > Len(ls) THEN [res |-> "none", at |-> 0, pattern |-> 0, seen |-> seen, found |-> found]
    ELSE LET r == ScanLine(ls[i])
             seen2 == IF ls[i].json = "object"
                      THEN seen \cup {Get(ls[i].type, "<no type>")} ELSE seen
         IN IF r.res = "skip" THEN ScanFrom(ls, i + 1, seen2, found + r.user)
            ELSE [res |-> r.res, at |-> i, pattern |-> r.pattern, seen |-> seen2,
                  found |-> found + r.user]

(***************************************************************************)
(* The document on standard input: text that is not JSON, a JSON value     *)
(* that is no object, or an event object.  tool_input.get(key, '') makes   *)
(* an absent key and an empty string the same, so both are <<>>; the       *)
(* transcript_path keeps the difference.                                   *)
(***************************************************************************)
EmptyEvent ==
    [kind |-> "object", tool_name |-> "", file_path |-> <<>>, command |-> <<>>,
     transcript_path |-> Absent, old_string |-> <<>>, new_string |-> <<>>,
     content |-> <<>>]

MalformedInput == [EmptyEvent EXCEPT !.kind = "malformed"]

\* a text that is not JSON and nests its unclosed brackets deeper than the
\* interpreter's recursion limit: json.load raises RecursionError, which is
\* not a JSONDecodeError
TooDeepInput == [EmptyEvent EXCEPT !.kind = "toodeep"]

NonObjectInput == [EmptyEvent EXCEPT !.kind = "nonobject"]

OtherInputs == {MalformedInput, TooDeepInput, NonObjectInput}

\* shell commands: every token sequence of the core alphabet, and some with
\* upper case, a newline, and more than 50 characters
CmdToks == {"git", " ", "commit", "push", "--amend", "x"}

Commands ==
    SeqsUpTo(CmdToks, MaxCmdToks)
        \cup { <<"GIT", " ", "COMMIT">>,
               <<"git", "\n", "--amend">>,
               <<"git", " ", "x", "\n", "--amend">>,
               <<"git", " ", "commit", " ", Long>>,
               <<"git", " ", "x", " ", Long, "--amend">>,
               <<"x", " ", Long, "commit">> }

TranscriptPaths == {Absent, "", "/transcript.jsonl"}

BashEvents ==
    {[EmptyEvent EXCEPT !.tool_name = "Bash", !.command = c, !.transcript_path = p] :
        c \in Commands, p \in TranscriptPaths}

\* no earlier invocation
NoRun == [ran |-> FALSE]

\* the process before main() runs
Fresh(h, input) ==
    /\ hook = h
    /\ stdin = input
    /\ pc = "start"
    /\ steps = <<>>
    /\ opened = FALSE
    /\ lines = <<>>
    /\ requested = FALSE
    /\ exit_code = -1
    /\ stdout = <<>>
    /\ stderr = <<>>
    /\ verdict = "none"
    /\ previous = NoRun

\* sys.exit(code) on a branch that decides v
Exit(code, v) ==
    /\ pc' = "exited"
    /\ exit_code' = code
    /\ verdict' = v

\* an exception nothing catches: the traceback on the error stream, status 1
Crash(error) ==
    /\ Exit(1, "error")
    /\ stderr' = Append(stderr, Msg("traceback", <<error>>, 0, 0))

\* the step named label is running
At(h, label) ==
    /\ hook = h
    /\ pc = label
    /\ steps' = Append(steps, label)
    /\ UNCHANGED previous

\* json.load(sys.stdin) inside try / except json.JSONDecodeError: sys.exit(0),
\* the first lines of every main()
LoadInput(next) ==
    CASE stdin.kind = "malformed" -> Exit(0, "allow") /\ UNCHANGED stderr
      [] stdin.kind = "toodeep" -> Crash("RecursionError")
      [] OTHER -> pc' = next /\ UNCHANGED <<exit_code, verdict, stderr>>

(***************************************************************************)
(* block-git-commit.py, main()                                             *)
(***************************************************************************)
BlockGitCommit == "block-git-commit.py"

\* command[:n] on tokens: each token with the number of characters kept
RECURSIVE Slice(_, _)
Slice(s, n) ==
    IF Len(s) = 0 \/ n <= 0 THEN <<>>
    ELSE <<[tok |-> Head(s), take |-> Min(n, TokLen(Head(s)))]>>
            \o Slice(Tail(s), n - TokLen(Head(s)))

\* len() of a sliced text
RECURSIVE SliceLen(_)
SliceLen(sl) == IF Len(sl) = 0 THEN 0 ELSE Head(sl).take + SliceLen(Tail(sl))

\* the width of the Command field of the block message (line 149)
EchoWidth == 50

\* lines 144-162: f"{command[:50]:<50}", the echo and its padding
BlockedCommitMsg(command) ==
    LET echo == Slice(command, EchoWidth)
    IN Msg("blocked-commit", echo, EchoWidth - SliceLen(echo), 0)

\* lines 107-110
BGC_ParseInput ==
    /\ At(BlockGitCommit, "start")
    /\ LoadInput("classify")
    /\ UNCHANGED <<hook, stdin, opened, lines, requested, stdout>>

\* BGC_ClassifyCommand with the debug line printed before the command is
\* tested (a mutant)
BGC_ClassifyCommand_LogFirst ==
    /\ At(BlockGitCommit, "classify")
    /\ IF stdin.kind = "nonobject"
         THEN Crash("AttributeError")
         ELSE /\ stderr' = Append(stderr, Msg("debug-command", stdin.command, 0, 0))
              /\ IF ~is_git_commit_push(stdin.command)
                   THEN Exit(0, "allow")
                   ELSE pc' = "open" /\ UNCHANGED <<exit_code, verdict>>
    /\ UNCHANGED <<hook, stdin, opened, lines, requested, stdout>>

\* lines 112-138
BGC_ClassifyCommand ==
    /\ At(BlockGitCommit, "classify")
    /\ IF stdin.kind = "nonobject"
         THEN Crash("AttributeError")
         ELSE IF ~is_git_commit_push(stdin.command)
         THEN Exit(0, "allow") /\ UNCHANGED stderr
         ELSE /\ pc' = "open"
              /\ stderr' = Append(stderr, Msg("debug-command", stdin.command, 0, 0))
              /\ UNCHANGED <<exit_code, verdict>>
    /\ UNCHANGED <<hook, stdin, opened, lines, requested, stdout>>

\* lines 36-48 and 98-101 of check_user_requested_commit; the hook never
\* writes the transcript, and a second invocation finds the file the first read
BGC_OpenTranscript ==
    /\ At(BlockGitCommit, "open")
    /\ IF Get(stdin.transcript_path, "") = ""
         THEN /\ stderr' = Append(stderr, Msg("debug-no-path", <<>>, 0, 0))
              /\ requested' = FALSE
              /\ pc' = "decide"
              /\ UNCHANGED <<opened, lines>>
         ELSE \E f \in Files :
              /\ previous.ran => f = previous.file
              /\ opened' = TRUE
              /\ IF f.status = "ok"
                   THEN /\ lines' = f.lines
                        /\ stderr' = stderr \o <<Msg("debug-path", <<>>, 0, 0),
                                                Msg("debug-read", <<>>, Len(f.lines), 0)>>
                        /\ pc' = "scan"
                        /\ UNCHANGED requested
                   ELSE /\ stderr' = stderr \o <<Msg("debug-path", <<>>, 0, 0),
                                                Msg("debug-error", <<f.status>>, 0, 0)>>
                        /\ requested' = FALSE
                        /\ pc' = "decide"
                        /\ UNCHANGED lines
    /\ UNCHANGED <<hook, stdin, exit_code, stdout, verdict>>

\* an order in which Python prints the elements of a set of strings
SetOrders(S) ==
    {f \in [1..Cardinality(S) -> S] : \A i, j \in 1..Cardinality(S) : f[i] = f[j] => i = j}

\* lines 50-96 and 103: the loop over the lines
BGC_ScanTranscript ==
    /\ At(BlockGitCommit, "scan")
    /\ LET r == ScanFrom(lines, 1, {}, 0)
       IN CASE r.res = "raise" ->
                 Crash("AttributeError") /\ UNCHANGED requested
            [] r.res = "match" ->
                 /\ stderr' = Append(stderr, Msg("debug-match", <<>>, r.pattern, 0))
                 /\ requested' = TRUE
                 /\ pc' = "decide"
                 /\ UNCHANGED <<exit_code, verdict>>
            [] OTHER ->
                 \E order \in SetOrders(r.seen) :
                    /\ stderr' = stderr \o <<Msg("debug-types", order, 0, 0),
                                            Msg("debug-users", <<>>, r.found, 0),
                                            Msg("debug-no-match", <<>>, 0, 0)>>
                    /\ requested' = FALSE
                    /\ pc' = "decide"
                    /\ UNCHANGED <<exit_code, verdict>>
    /\ UNCHANGED <<hook, stdin, opened, lines, stdout>>

\* lines 140-163
BGC_Decide ==
    /\ At(BlockGitCommit, "decide")
    /\ IF requested
         THEN Exit(0, "allow") /\ UNCHANGED stderr
         ELSE /\ stderr' = Append(stderr, BlockedCommitMsg(stdin.command))
              /\ Exit(2, "block")
    /\ UNCHANGED <<hook, stdin, opened, lines, requested, stdout>>

InitGit == \E e \in OtherInputs \cup BashEvents : Fresh(BlockGitCommit, e)

NextGit ==
    \/ BGC_ParseInput
    \/ BGC_ClassifyCommand
    \/ BGC_OpenTranscript
    \/ BGC_ScanTranscript
    \/ BGC_Decide

SpecGit == InitGit /\ [][NextGit]_vars

(***************************************************************************)
(* protect-snippet-markers.py.  The texts of an edit are sequences of the  *)
(* tokens below: two well-formed opening markers, the bare opening prefix  *)
(* (a marker cut short), the closing marker and a word of code.            *)
(***************************************************************************)
ProtectSnippetMarkers == "protect-snippet-markers.py"

OpenFoo == "<!-- snippet: foo -->"
OpenBar == "<!-- snippet: bar -->"
OpenPrefix == "<!-- snippet:"
CloseMarker == "<!-- /snippet -->"
Code == "code"

SnippetToks == {OpenFoo, OpenPrefix, CloseMarker, Code}

SnippetTexts ==
    SeqsUpTo(SnippetToks, MaxEditToks)
        \cup { <<OpenBar, OpenFoo>>,
               <<OpenBar, Code, CloseMarker>>,
               <<OpenFoo, Code, CloseMarker, OpenBar, CloseMarker>>,
               <<OpenFoo, Code, CloseMarker, OpenBar, Code, CloseMarker>> }

SnippetEvents ==
    {[EmptyEvent EXCEPT !.tool_name = "Edit", !.old_string = o, !.new_string = n] :
        o \in SnippetTexts, n \in SnippetTexts}
    \cup
    {[EmptyEvent EXCEPT !.tool_name = "Write", !.old_string = o, !.new_string = <<>>] :
        o \in {<<>>, <<OpenFoo, Code, CloseMarker>>}}

\* '<!-- snippet:' in text
has_opening(text) == \E i \in 1..Len(text) : text[i] \in {OpenFoo, OpenBar, OpenPrefix}

\* '<!-- /snippet -->' in text
has_closing(text) == \E i \in 1..Len(text) : text[i] = CloseMarker

\* the token holds the character '>'
HasGt(t) == t \in {OpenFoo, OpenBar, CloseMarker}

\* snippet_id with the last match instead of the first (a mutant)
snippet_id_last(text) ==
    LET at == {i \in 1..Len(text) : text[i] \in {OpenFoo, OpenBar}}
    IN IF at = {} THEN "unknown"
       ELSE LET last == CHOOSE i \in at : \A j \in at : i >= j
            IN IF text[last] = OpenFoo THEN "foo" ELSE "bar"

\* re.search(r'<!-- snippet: ([^\s]+) -->', text).group(1), 'unknown' without a match
snippet_id(text) ==
    LET at == {i \in 1..Len(text) : text[i] \in {OpenFoo, OpenBar}}
    IN IF at = {} THEN "unknown"
       ELSE LET first == CHOOSE i \in at : \A j \in at : i <= j
            IN IF text[first] = OpenFoo THEN "foo" ELSE "bar"

\* r'<!-- snippet:[^>]+-->' from token i: the token where the match ends, 0 when
\* there is none.  [^>]+ runs to the first '>' of the text.
LenientOpeningEnd(text, i) ==
    IF text[i] \in {OpenFoo, OpenBar} THEN i
    ELSE IF text[i] # OpenPrefix THEN 0
    ELSE LET gts == {j \in (i + 1)..Len(text) : HasGt(text[j])}
         IN IF gts = {} THEN 0 ELSE CHOOSE j \in gts : \A k \in gts : j <= k

\* re.search(r'<!-- snippet:[^>]+-->(.*?)<!-- /snippet -->', text, re.DOTALL):
\* [found, group(1)] of the leftmost match
between_markers(text) ==
    LET closeAfter(e) == {k \in (e + 1)..Len(text) : text[k] = CloseMarker}
        starts == {i \in 1..Len(text) :
                     /\ LenientOpeningEnd(text, i) # 0
                     /\ closeAfter(LenientOpeningEnd(text, i)) # {}}
    IN IF starts = {} THEN [found |-> FALSE, group |-> <<>>]
       ELSE LET i == CHOOSE a \in starts : \A b \in starts : a <= b
                e == LenientOpeningEnd(text, i)
                k == CHOOSE a \in closeAfter(e) : \A b \in closeAfter(e) : a <= b
            IN [found |-> TRUE, group |-> SubSeq(text, e + 1, k - 1)]

\* lines 56-59
PSM_ParseInput ==
    /\ At(ProtectSnippetMarkers, "start")
    /\ LoadInput("gate")
    /\ UNCHANGED <<hook, stdin, opened, lines, requested, stdout>>

\* lines 61-73
PSM_Gate ==
    /\ At(ProtectSnippetMarkers, "gate")
    /\ IF stdin.kind = "nonobject"
         THEN Crash("AttributeError")
         ELSE /\ IF stdin.tool_name # "Edit" \/ stdin.old_string = <<>>
                   THEN Exit(0, "allow")
                   ELSE pc' = "case1" /\ UNCHANGED <<exit_code, verdict>>
              /\ UNCHANGED stderr
    /\ UNCHANGED <<hook, stdin, opened, lines, requested, stdout>>

\* Case1Condition that never holds: the first rule is missing (a mutant)
Case1Condition_Never(old_string, new_string) == FALSE

\* line 82
Case1Condition(old_string, new_string) ==
    /\ has_opening(old_string)
    /\ has_closing(old_string)
    /\ ~has_opening(new_string)
    /\ ~has_closing(new_string)

\* lines 81-84: the whole snippet is removed
PSM_Case1 ==
    /\ At(ProtectSnippetMarkers, "case1")
    /\ IF Case1Condition(stdin.old_string, stdin.new_string)
         THEN Exit(0, "allow")
         ELSE pc' = "case2" /\ UNCHANGED <<exit_code, verdict>>
    /\ UNCHANGED <<hook, stdin, opened, lines, requested, stdout, stderr>>

\* line 87
Case2Condition(old_string, new_string) ==
    has_opening(old_string) /\ ~has_opening(new_string)

\* lines 86-119: the opening marker is removed; the decision goes to stdout
\* as JSON and the exit status is 0
PSM_Case2 ==
    /\ At(ProtectSnippetMarkers, "case2")
    /\ IF Case2Condition(stdin.old_string, stdin.new_string)
         THEN /\ stdout' = Append(stdout,
                     Msg("decision-block", <<"opening", snippet_id(stdin.old_string)>>, 0, 0))
              /\ Exit(0, "block")
         ELSE pc' = "case3" /\ UNCHANGED <<exit_code, verdict, stdout>>
    /\ UNCHANGED <<hook, stdin, opened, lines, requested, stderr>>

\* line 122
Case3Condition(old_string, new_string) ==
    has_closing(old_string) /\ ~has_closing(new_string) /\ ~has_opening(old_string)

\* lines 121-140: the closing marker is removed
PSM_Case3 ==
    /\ At(ProtectSnippetMarkers, "case3")
    /\ IF Case3Condition(stdin.old_string, stdin.new_string)
         THEN /\ stdout' = Append(stdout, Msg("decision-block", <<"closing">>, 0, 0))
              /\ Exit(0, "block")
         ELSE pc' = "case4" /\ UNCHANGED <<exit_code, verdict, stdout>>
    /\ UNCHANGED <<hook, stdin, opened, lines, requested, stderr>>

\* lines 143-148
Case4Condition(old_string, new_string) ==
    /\ has_opening(old_string) /\ has_opening(new_string)
    /\ has_closing(old_string) /\ has_closing(new_string)
    /\ between_markers(old_string).found
    /\ between_markers(new_string).found
    /\ between_markers(old_string).group # between_markers(new_string).group

\* lines 142-163: the content between the markers is edited
PSM_Case4 ==
    /\ At(ProtectSnippetMarkers, "case4")
    /\ IF Case4Condition(stdin.old_string, stdin.new_string)
         THEN /\ stderr' = Append(stderr, Msg("warning-snippet", <<>>, 0, 0))
              /\ Exit(0, "warn")
         ELSE Exit(0, "allow") /\ UNCHANGED stderr
    /\ UNCHANGED <<hook, stdin, opened, lines, requested, stdout>>

InitSnippet ==
    \E e \in OtherInputs \cup SnippetEvents : Fresh(ProtectSnippetMarkers, e)

NextSnippet ==
    \/ PSM_ParseInput
    \/ PSM_Gate
    \/ PSM_Case1
    \/ PSM_Case2
    \/ PSM_Case3
    \/ PSM_Case4

SpecSnippet == InitSnippet /\ [][NextSnippet]_vars

(***************************************************************************)
(* File paths.  A path is a sequence of the fragments below; the needles   *)
(* the hooks look for in a path (substring tests) lie inside one fragment. *)
(***************************************************************************)
FilePaths ==
    { <<"src/", "Foo", ".cs">>,
      <<"src", "/Tests/", "Foo", ".cs">>,
      <<"src/", "Foo", "Test.cs">>,
      <<"src/", "foo", "_test.py">>,
      <<"src/", "Test", "Helper", ".cs">>,
      <<"repo", "/docs/", "guide", ".md">> }

\* needle in fragment, for the needles of is_test_file, of the test-double
\* gate and of is_docs_markdown
FragmentHas(fragment, needle) ==
    CASE fragment = "/Tests/" -> needle \in {"/Tests/", "Test"}
      [] fragment = "/Test/" -> needle \in {"/Test/", "Test"}
      [] fragment = "/Unit/" -> needle = "/Unit/"
      [] fragment = "Test.cs" -> needle \in {"Test.cs", "Test"}
      [] fragment = "Tests.cs" -> needle \in {"Tests.cs", "Test"}
      [] fragment = "Test" -> needle = "Test"
      [] fragment = "/docs/" -> needle = "/docs/"
      [] OTHER -> fragment = needle

\* needle in file_path
PathHas(file_path, needle) == \E i \in 1..Len(file_path) : FragmentHas(file_path[i], needle)

\* fragment.endswith(suffix), for the suffixes of is_code_file and is_docs_markdown
FragmentEndsWith(fragment, suffix) ==
    CASE fragment \in {"Test.cs", "Tests.cs"} -> suffix = ".cs"
      [] fragment \in {"_test.py", "_tests.py"} -> suffix = ".py"
      [] OTHER -> fragment = suffix

\* file_path.endswith(suffix)
PathEndsWith(file_path, suffix) ==
    Len(file_path) > 0 /\ FragmentEndsWith(file_path[Len(file_path)], suffix)

(***************************************************************************)
(* protect-test-assertions.py.  The texts of an edit are sequences of the  *)
(* statements below.                                                       *)
(***************************************************************************)
ProtectTestAssertions == "protect-test-assertions.py"

AssertEqual == "Assert.Equal(1, x);"
AssertLower == "assert.equal(1, x);"
FactAttr == "[Fact]"
ExpectCall == "expect(x);"
TaskMethod == "public async Task T()"
Statement == "var x = 1;"
Comment == "// "

TestToks == {AssertEqual, FactAttr, Statement, Comment}

TestTexts ==
    SeqsUpTo(TestToks, MaxTestToks)
        \cup { <<TaskMethod>>, <<TaskMethod, TaskMethod>>, <<AssertLower>>,
               <<ExpectCall, AssertEqual>>, <<ExpectCall, ExpectCall, AssertEqual>>,
               <<AssertEqual, AssertEqual, Statement>> }

EditEvents(texts) ==
    {[EmptyEvent EXCEPT !.tool_name = "Edit", !.file_path = f, !.old_string = o,
                        !.new_string = n] :
        f \in FilePaths, o \in texts, n \in texts}

\* test_indicators
test_indicators ==
    {"/Unit/", "/Tests/", "/Test/", "Test.cs", "Tests.cs", "_test.py", "_tests.py",
     ".test.ts", ".test.js", ".spec.ts", ".spec.js"}

\* lines 17-32
is_test_file(file_path) == \E indicator \in test_indicators : PathHas(file_path, indicator)

\* assertion_patterns, by their position in the list
assertion_patterns ==
    << "\\bAssert\\.\\w+", "\\b\\.Should\\w*\\(", "\\bExpect\\(", "\\bassert\\s+",
       "\\[Fact\\]", "\\[Theory\\]", "\\[Test\\]", "\\[TestMethod\\]", "@Test\\b",
       "\\bit\\(", "\\bdescribe\\(" >>

\* the matches of assertion_patterns[n], with re.IGNORECASE, inside one statement
MatchesIn(n, t) ==
    IF n = 1 /\ t \in {AssertEqual, AssertLower} THEN 1
    ELSE IF n = 3 /\ t = ExpectCall THEN 1
    ELSE IF n = 5 /\ t = FactAttr THEN 1
    ELSE 0

\* len(re.findall(assertion_patterns[n], text, re.IGNORECASE))
RECURSIVE CountMatches(_, _)
CountMatches(n, text) ==
    IF Len(text) = 0 THEN 0 ELSE MatchesIn(n, Head(text)) + CountMatches(n, Tail(text))

\* len(re.findall(test_method_pattern, text))
RECURSIVE CountMethods(_)
CountMethods(text) ==
    IF Len(text) = 0 THEN 0
    ELSE (IF Head(text) = TaskMethod THEN 1 ELSE 0) + CountMethods(Tail(text))

\* line 67: '//' + old_string.strip() in new_string or '// ' + old_string.strip() in new_string
CommentedOut(old_string, new_string) ==
    \E i \in 1..Len(new_string) :
        /\ new_string[i] = Comment
        /\ i + Len(old_string) <= Len(new_string)
        /\ \A k \in 1..Len(old_string) : new_string[i + k] = old_string[k]

check_assertion_removal_total(old_string, new_string) ==
    LET Total(text) == CountMatches(1, text) + CountMatches(3, text) + CountMatches(5, text)
    IN IF Total(old_string) > Total(new_string)
         THEN [block |-> TRUE, reason |-> "Removing", pattern |-> 1,
               before |-> Total(old_string), after |-> Total(new_string)]
         ELSE [block |-> FALSE, reason |-> "", pattern |-> 0, before |-> 0, after |-> 0]

\* lines 35-77: [block, reason, pattern, before, after]
check_assertion_removal(old_string, new_string) ==
    LET fewer == {n \in 1..Len(assertion_patterns) :
                     CountMatches(n, old_string) > CountMatches(n, new_string)}
        no == [block |-> FALSE, reason |-> "", pattern |-> 0, before |-> 0, after |-> 0]
    IN IF fewer # {}
         THEN LET n == CHOOSE a \in fewer : \A b \in fewer : a <= b
              IN [block |-> TRUE, reason |-> "Removing", pattern |-> n,
                  before |-> CountMatches(n, old_string),
                  after |-> CountMatches(n, new_string)]
       ELSE IF CommentedOut(old_string, new_string)
         THEN [no EXCEPT !.block = TRUE, !.reason = "Commenting out test code"]
       ELSE IF CountMethods(old_string) > 0 /\ CountMethods(new_string) < CountMethods(old_string)
         THEN [no EXCEPT !.block = TRUE, !.reason = "Removing test methods",
                         !.before = CountMethods(old_string),
                         !.after = CountMethods(new_string)]
       ELSE no

\* lines 81-84
PTA_ParseInput ==
    /\ At(ProtectTestAssertions, "start")
    /\ LoadInput("gate")
    /\ UNCHANGED <<hook, stdin, opened, lines, requested, stdout>>

\* the gate without the is_test_file test of lines 90-91 (a mutant)
PTA_Gate_NoScope ==
    /\ At(ProtectTestAssertions, "gate")
    /\ IF stdin.kind = "nonobject"
         THEN Crash("AttributeError")
         ELSE /\ IF stdin.old_string = <<>>
                   THEN Exit(0, "allow")
                   ELSE pc' = "check" /\ UNCHANGED <<exit_code, verdict>>
              /\ UNCHANGED stderr
    /\ UNCHANGED <<hook, stdin, opened, lines, requested, stdout>>

\* lines 86-98
PTA_Gate ==
    /\ At(ProtectTestAssertions, "gate")
    /\ IF stdin.kind = "nonobject"
         THEN Crash("AttributeError")
         ELSE /\ IF ~is_test_file(stdin.file_path) \/ stdin.old_string = <<>>
                   THEN Exit(0, "allow")
                   ELSE pc' = "check" /\ UNCHANGED <<exit_code, verdict>>
              /\ UNCHANGED stderr
    /\ UNCHANGED <<hook, stdin, opened, lines, requested, stdout>>

\* lines 100-127
PTA_Check ==
    /\ At(ProtectTestAssertions, "check")
    /\ LET r == check_assertion_removal(stdin.old_string, stdin.new_string)
       IN IF r.block
            THEN /\ stderr' = Append(stderr,
                        Msg("blocked-assertion", <<r.reason, r.pattern>>, r.before, r.after))
                 /\ Exit(2, "block")
            ELSE Exit(0, "allow") /\ UNCHANGED stderr
    /\ UNCHANGED <<hook, stdin, opened, lines, requested, stdout>>

InitAssert ==
    \E e \in OtherInputs \cup EditEvents(TestTexts) :
        Fresh(ProtectTestAssertions, e)

NextAssert ==
    \/ PTA_ParseInput
    \/ PTA_Gate
    \/ PTA_Check

SpecAssert == InitAssert /\ [][NextAssert]_vars

(***************************************************************************)
(* The three hooks below read the text to check as  content or new_string  *)
(* (a Write's content, else an Edit's new_string).                         *)
(***************************************************************************)
ContentEvents(texts, both) ==
    {[EmptyEvent EXCEPT !.tool_name = "Write", !.file_path = f, !.content = c] :
        f \in FilePaths, c \in texts}
    \cup
    {[EmptyEvent EXCEPT !.tool_name = "Edit", !.file_path = f,
                        !.old_string = <<Statement>>, !.new_string = n] :
        f \in FilePaths, n \in texts}
    \cup
    {[EmptyEvent EXCEPT !.tool_name = "Write", !.file_path = f, !.content = c,
                        !.new_string = n] :
        f \in FilePaths, c \in both, n \in both}

\* content or new_string
check_content(event) == IF event.content # <<>> THEN event.content ELSE event.new_string

(***************************************************************************)
(* check-test-double.py                                                    *)
(***************************************************************************)
CheckTestDouble == "check-test-double.py"

CopiedFrom == "// copied from Foo\n"
DoubleClass == "private class FooTestDouble {"
Method == "public bool M() {"
PrivClass == "private class Fake {"
Ret == "return a != b;"
Close == "}"

DoubleToks == {CopiedFrom, PrivClass, Ret, Close}

DoubleTexts ==
    SeqsUpTo(DoubleToks, MaxTestToks)
        \cup { <<DoubleClass, Method>>, <<DoubleClass, Close, Method>>,
               <<DoubleClass, Ret>>, <<Method, DoubleClass>>,
               <<PrivClass, Close, Ret>>, <<PrivClass, Statement, Ret>>,
               <<PrivClass, Method, Ret>>, <<Statement>> }

DoubleEvents == ContentEvents(DoubleTexts, {<<CopiedFrom>>, <<Statement>>})

\* text has the token first, later one of the tokens then, and no "}" in between
OpensThen(text, first, then) ==
    \E i \in 1..Len(text) : \E j \in (i + 1)..Len(text) :
        /\ text[i] \in first
        /\ text[j] \in then
        /\ \A k \in (i + 1)..(j - 1) : text[k] # Close

ReasonWidth == 60

\* lines 16-54: [block, reason, length of the reason]
check_for_copied_logic(text) ==
    IF \E i \in 1..Len(text) : text[i] = CopiedFrom
      THEN [block |-> TRUE, reason |-> "copied logic comment: copied\\s+from", length |-> 67]
    ELSE IF OpensThen(text, {DoubleClass}, {Method})
      THEN [block |-> TRUE, reason |-> "TestDouble class with method implementations",
            length |-> 94]
    ELSE IF OpensThen(text, {DoubleClass, PrivClass}, {Ret})
      THEN [block |-> TRUE, reason |-> "private class with comparison returns",
            length |-> 111]
    ELSE [block |-> FALSE, reason |-> "", length |-> 0]

\* lines 59-63
CTD_ParseInput ==
    /\ At(CheckTestDouble, "start")
    /\ LoadInput("gate")
    /\ UNCHANGED <<hook, stdin, opened, lines, requested, stdout>>

\* line 69
in_test_area(file_path) ==
    PathHas(file_path, "/Unit/") \/ PathHas(file_path, "/Tests/") \/ PathHas(file_path, "Test")

\* lines 65-78
CTD_Gate ==
    /\ At(CheckTestDouble, "gate")
    /\ IF stdin.kind = "nonobject"
         THEN Crash("AttributeError")
         ELSE /\ IF ~in_test_area(stdin.file_path) \/ check_content(stdin) = <<>>
                   THEN Exit(0, "allow")
                   ELSE pc' = "check" /\ UNCHANGED <<exit_code, verdict>>
              /\ UNCHANGED stderr
    /\ UNCHANGED <<hook, stdin, opened, lines, requested, stdout>>

\* the block of lines 82-105 leaving with status 0 (a mutant)
CTD_Check_Exit0 ==
    /\ At(CheckTestDouble, "check")
    /\ LET r == check_for_copied_logic(check_content(stdin))
       IN IF r.block
            THEN /\ stderr' = Append(stderr,
                        Msg("blocked-copied-logic", <<r.reason>>, Min(r.length, ReasonWidth), 0))
                 /\ Exit(0, "block")
            ELSE Exit(0, "allow") /\ UNCHANGED stderr
    /\ UNCHANGED <<hook, stdin, opened, lines, requested, stdout>>

\* lines 80-108
CTD_Check ==
    /\ At(CheckTestDouble, "check")
    /\ LET r == check_for_copied_logic(check_content(stdin))
       IN IF r.block
            THEN /\ stderr' = Append(stderr,
                        Msg("blocked-copied-logic", <<r.reason>>, Min(r.length, ReasonWidth), 0))
                 /\ Exit(2, "block")
            ELSE Exit(0, "allow") /\ UNCHANGED stderr
    /\ UNCHANGED <<hook, stdin, opened, lines, requested, stdout>>

InitDouble == \E e \in OtherInputs \cup DoubleEvents : Fresh(CheckTestDouble, e)

NextDouble ==
    \/ CTD_ParseInput
    \/ CTD_Gate
    \/ CTD_Check

\* the two blocking file guards
InitGuards ==
    \/ InitAssert
    \/ InitDouble

NextGuards ==
    \/ NextAssert
    \/ NextDouble

SpecGuards == InitGuards /\ [][NextGuards]_vars

(***************************************************************************)
(* warn-commented-code.py.  A text is a sequence of lines.                 *)
(***************************************************************************)
WarnCommentedCode == "warn-commented-code.py"

CVar == "// var x = 1\n"
CRet == "// return x\n"
CIf == "// if (x)\n"
Hack == "// HACK: y\n"
CStmt == "// x = y;\n"
Plain == "x = 1;\n"

CommentToks == {CVar, CRet, Hack, CStmt, Plain}

CommentTexts ==
    SeqsUpTo(CommentToks, MaxCommentLines)
        \cup { <<CVar, CRet, CIf>>, <<CIf, CIf, CIf, Plain, CVar, CRet, CIf, CIf>>,
               <<CVar, CRet, Plain, CIf, CVar>> }

CommentEvents == ContentEvents(CommentTexts, {<<Hack>>, <<Plain>>})

\* lines 17-20
code_extensions == {".cs", ".py", ".ts", ".js", ".tsx", ".jsx", ".java", ".go", ".rs"}

is_code_file(file_path) == \E ext \in code_extensions : PathEndsWith(file_path, ext)

\* a line the consecutive_commented pattern takes as commented-out code
IsCommentedCode(line) == line \in {CVar, CRet, CIf}

\* len(consecutive_commented): the maximal runs of three or more such lines;
\* run is the length of the run that ends before text
RECURSIVE CountRuns(_, _)
CountRuns(text, run) ==
    IF Len(text) = 0 THEN (IF run >= 3 THEN 1 ELSE 0)
    ELSE IF IsCommentedCode(Head(text)) THEN CountRuns(Tail(text), run + 1)
    ELSE (IF run >= 3 THEN 1 ELSE 0) + CountRuns(Tail(text), 0)

\* len(commented_statements)
RECURSIVE CountStatements(_)
CountStatements(text) ==
    IF Len(text) = 0 THEN 0
    ELSE (IF Head(text) = CStmt THEN 1 ELSE 0) + CountStatements(Tail(text))

\* lines 23-61: [warn, reason, count]
check_commented_code(text) ==
    IF \E i \in 1..Len(text) : text[i] = Hack
      THEN [warn |-> TRUE, reason |-> "HACK comment", count |-> 0]
    ELSE IF CountRuns(text, 0) > 0
      THEN [warn |-> TRUE, reason |-> "Multiple lines of commented-out code",
            count |-> CountRuns(text, 0)]
    ELSE IF CountStatements(text) >= 2
      THEN [warn |-> TRUE, reason |-> "Commented-out statements",
            count |-> CountStatements(text)]
    ELSE [warn |-> FALSE, reason |-> "", count |-> 0]

\* lines 65-68
WCC_ParseInput ==
    /\ At(WarnCommentedCode, "start")
    /\ LoadInput("gate")
    /\ UNCHANGED <<hook, stdin, opened, lines, requested, stdout>>

\* lines 70-83
WCC_Gate ==
    /\ At(WarnCommentedCode, "gate")
    /\ IF stdin.kind = "nonobject"
         THEN Crash("AttributeError")
         ELSE /\ IF ~is_code_file(stdin.file_path) \/ check_content(stdin) = <<>>
                   THEN Exit(0, "allow")
                   ELSE pc' = "check" /\ UNCHANGED <<exit_code, verdict>>
              /\ UNCHANGED stderr
    /\ UNCHANGED <<hook, stdin, opened, lines, requested, stdout>>

\* the warning of lines 87-107 leaving with status 2 (a mutant)
WCC_Check_Blocks ==
    /\ At(WarnCommentedCode, "check")
    /\ LET r == check_commented_code(check_content(stdin))
       IN IF r.warn
            THEN /\ stderr' = Append(stderr, Msg("warning-commented-code", <<r.reason>>, r.count, 0))
                 /\ Exit(2, "block")
            ELSE Exit(0, "allow") /\ UNCHANGED stderr
    /\ UNCHANGED <<hook, stdin, opened, lines, requested, stdout>>

\* lines 85-110
WCC_Check ==
    /\ At(WarnCommentedCode, "check")
    /\ LET r == check_commented_code(check_content(stdin))
       IN IF r.warn
            THEN /\ stderr' = Append(stderr, Msg("warning-commented-code", <<r.reason>>, r.count, 0))
                 /\ Exit(0, "warn")
            ELSE Exit(0, "allow") /\ UNCHANGED stderr
    /\ UNCHANGED <<hook, stdin, opened, lines, requested, stdout>>

InitComment ==
    \E e \in OtherInputs \cup CommentEvents : Fresh(WarnCommentedCode, e)

NextComment ==
    \/ WCC_ParseInput
    \/ WCC_Gate
    \/ WCC_Check

(***************************************************************************)
(* warn-docs-code.py.  A text is a sequence of fences and lines.  A string  *)
(* of this module cannot hold a backquote, so the three backquotes of a    *)
(* fence are written as three single quotes.                               *)
(***************************************************************************)
WarnDocsCode == "warn-docs-code.py"

Fence == "'''csharp\n"
FenceEnd == "'''\n"
CodeLine == "var x = 1;\n"
NoteLine == "// note\n"
Prose == "Text.\n"

DocToks == {Fence, FenceEnd, CodeLine, NoteLine}

DocTexts ==
    SeqsUpTo(DocToks, MaxDocToks)
        \cup { <<Fence, CodeLine, CodeLine, CodeLine, FenceEnd>>,
               <<Prose, Fence, CodeLine, CodeLine, CodeLine, FenceEnd, Prose>>,
               <<Fence, CodeLine, NoteLine, CodeLine, FenceEnd>>,
               <<Fence, CodeLine, CodeLine, CodeLine, FenceEnd, Fence, CodeLine,
                 CodeLine, CodeLine, FenceEnd>>,
               <<"'''CSharp\n", CodeLine, CodeLine, CodeLine, FenceEnd>>,
               <<"'''text\n", CodeLine, CodeLine, CodeLine, FenceEnd>> }

DocEvents == ContentEvents(DocTexts, {<<Prose>>, <<Fence, CodeLine, CodeLine, CodeLine, FenceEnd>>})

\* line 19
is_docs_markdown(file_path) == PathHas(file_path, "/docs/") /\ PathEndsWith(file_path, ".md")

\* the token starts with a fence and a language of the list, then a newline
OpensBlock(t) == t \in {Fence, "'''CSharp\n"}

\* the token starts with a fence
HasBackticks(t) == t \in {Fence, FenceEnd, "'''CSharp\n", "'''text\n"}

\* lines 28-45: len(substantial_blocks).  inside: a block is open; n: the
\* lines of the open block that are neither blank nor start with //
RECURSIVE CountSubstantial(_, _, _)
CountSubstantial(text, inside, n) ==
    IF Len(text) = 0 THEN 0
    ELSE IF inside
      THEN IF HasBackticks(Head(text))
             THEN (IF n >= 3 THEN 1 ELSE 0) + CountSubstantial(Tail(text), FALSE, 0)
             ELSE CountSubstantial(Tail(text), TRUE,
                                   IF Head(text) \in {CodeLine, Prose} THEN n + 1 ELSE n)
      ELSE CountSubstantial(Tail(text), OpensBlock(Head(text)), 0)

\* lines 22-47: [warn, count]
check_for_code_blocks(text) ==
    LET n == CountSubstantial(text, FALSE, 0)
    IN [warn |-> n > 0, count |-> n]

\* lines 51-54
WDC_ParseInput ==
    /\ At(WarnDocsCode, "start")
    /\ LoadInput("gate")
    /\ UNCHANGED <<hook, stdin, opened, lines, requested, stdout>>

\* lines 56-69
WDC_Gate ==
    /\ At(WarnDocsCode, "gate")
    /\ IF stdin.kind = "nonobject"
         THEN Crash("AttributeError")
         ELSE /\ IF ~is_docs_markdown(stdin.file_path) \/ check_content(stdin) = <<>>
                   THEN Exit(0, "allow")
                   ELSE pc' = "check" /\ UNCHANGED <<exit_code, verdict>>
              /\ UNCHANGED stderr
    /\ UNCHANGED <<hook, stdin, opened, lines, requested, stdout>>

\* lines 71-97
WDC_Check ==
    /\ At(WarnDocsCode, "check")
    /\ LET r == check_for_code_blocks(check_content(stdin))
       IN IF r.warn
            THEN /\ stderr' = Append(stderr, Msg("warning-docs-code", <<"Found">>, r.count, 3))
                 /\ Exit(0, "warn")
            ELSE Exit(0, "allow") /\ UNCHANGED stderr
    /\ UNCHANGED <<hook, stdin, opened, lines, requested, stdout>>

InitDocs == \E e \in OtherInputs \cup DocEvents : Fresh(WarnDocsCode, e)

NextDocs ==
    \/ WDC_ParseInput
    \/ WDC_Gate
    \/ WDC_Check

\* the two warning hooks
InitWarn ==
    \/ InitComment
    \/ InitDocs

NextWarn ==
    \/ NextComment
    \/ NextDocs

SpecWarn == InitWarn /\ [][NextWarn]_vars

(***************************************************************************)
(* The six hooks together: one invocation of one of them on one input.     *)
(***************************************************************************)
Hooks ==
    {BlockGitCommit, ProtectSnippetMarkers, ProtectTestAssertions, CheckTestDouble,
     WarnCommentedCode, WarnDocsCode}

Init ==
    \/ InitGit
    \/ InitSnippet
    \/ InitAssert
    \/ InitDouble
    \/ InitComment
    \/ InitDocs

Next ==
    \/ NextGit
    \/ NextSnippet
    \/ NextAssert
    \/ NextDouble
    \/ NextComment
    \/ NextDocs

Spec == Init /\ [][Next]_vars

(***************************************************************************)
(* Two invocations.  A hook keeps nothing between invocations: it writes   *)
(* no file and reads no environment, so a second invocation starts from    *)
(* the same process state as the first.  previous records what the first   *)
(* invocation read and produced.                                           *)
(***************************************************************************)
\* the transcript file as the running invocation found it
FileRead ==
    IF ~opened THEN [status |-> "unread", lines |-> <<>>]
    ELSE IF \E i \in 1..Len(stderr) : stderr[i].kind = "debug-error"
      THEN [status |-> stderr[CHOOSE i \in 1..Len(stderr) : stderr[i].kind = "debug-error"].text[1],
            lines |-> <<>>]
    ELSE [status |-> "ok", lines |-> lines]

\* the host runs the same hook again on the same standard input
Reinvoke ==
    /\ pc = "exited"
    /\ previous = NoRun
    /\ previous' = [ran |-> TRUE, file |-> FileRead, exit_code |-> exit_code,
                    stdout |-> stdout, stderr |-> stderr]
    /\ pc' = "start"
    /\ steps' = <<>>
    /\ opened' = FALSE
    /\ lines' = <<>>
    /\ requested' = FALSE
    /\ exit_code' = -1
    /\ stdout' = <<>>
    /\ stderr' = <<>>
    /\ verdict' = "none"
    /\ UNCHANGED <<hook, stdin>>

NextTwice ==
    \/ Next
    \/ Reinvoke

SpecTwice == Init /\ [][NextTwice]_vars

(***************************************************************************)
(* Claims about block-git-commit.py, checked under SpecGit.                *)
(***************************************************************************)
Done == pc = "exited"

\* the hook ran on an event whose command has a commit/push/amend shape
CommitCommandDone ==
    /\ Done
    /\ hook = BlockGitCommit
    /\ stdin.kind = "object"
    /\ is_git_commit_push(stdin.command)

\* readlines() returned the lines of the transcript
TranscriptRead == \E i \in 1..Len(steps) : steps[i] = "scan"

\* line is a user-authored record whose lower-cased text holds a request
IsRequestingUserRecord(line) ==
    /\ line.json = "object"
    /\ IsUserType(Get(line.type, "<no type>"))
    /\ ExtractContent(line).t = "str"
    /\ FirstRequestPattern(Lower(ExtractContent(line).text)) # 0

HasRequestingUserRecord == \E i \in 1..Len(lines) : IsRequestingUserRecord(lines[i])

\* the block message with the first 50 characters of the command is on stderr
EchoesCommand ==
    \E i \in 1..Len(stderr) :
        /\ stderr[i].kind = "blocked-commit"
        /\ stderr[i].text = Slice(stdin.command, EchoWidth)

\* C1: for a commit/push/amend command the hook exits 0 if and only if the
\* transcript was readable and holds a user-authored record whose text
\* matches an explicit-request pattern.
C1_AllowIffUserRequest ==
    CommitCommandDone =>
        ((exit_code = 0) <=> (TranscriptRead /\ HasRequestingUserRecord))

\* C2: for a commit/push/amend command with no transcript path, no readable
\* transcript or no requesting user record, the hook exits 2 and echoes the
\* first 50 characters of the command on the error stream.
C2_FailsClosed ==
    (CommitCommandDone /\ ~(TranscriptRead /\ HasRequestingUserRecord)) =>
        (exit_code = 2 /\ EchoesCommand)

\* C3: for a command that has none of the three shapes the hook exits 0 with
\* nothing on either stream and never opens the transcript, whatever the
\* transcript_path is.
C3_OtherCommandsAllowedSilently ==
    (Done /\ hook = BlockGitCommit /\ stdin.kind = "object"
          /\ ~is_git_commit_push(stdin.command)) =>
        (exit_code = 0 /\ stdout = <<>> /\ stderr = <<>> /\ ~opened /\ lines = <<>>)

\* C3 witness: "git x" with a transcript path given has been allowed
C3_Witness ==
    /\ Done
    /\ hook = BlockGitCommit
    /\ stdin.command = <<"git", " ", "x">>
    /\ stdin.transcript_path = "/transcript.jsonl"
    /\ exit_code = 0

(***************************************************************************)
(* Claims about protect-snippet-markers.py, checked under SpecSnippet.     *)
(* An opening marker is a well-formed <!-- snippet: ID -->; the bare       *)
(* prefix <!-- snippet: is no marker, although the hook's substring test   *)
(* has_opening takes it for one.                                           *)
(***************************************************************************)
EditDone ==
    /\ Done
    /\ hook = ProtectSnippetMarkers
    /\ stdin.kind = "object"
    /\ stdin.tool_name = "Edit"

IsOpeningMarker(t) == t \in {OpenFoo, OpenBar}

MarkerId(t) == IF t = OpenFoo THEN "foo" ELSE "bar"

HasOpeningMarker(text) == \E i \in 1..Len(text) : IsOpeningMarker(text[i])

\* a {"decision": "block"} object is on standard output
BlockDecision == \E i \in 1..Len(stdout) : stdout[i].kind = "decision-block"

\* the block decision of the opening-marker rule names the id of the first
\* opening marker of old_string
BlocksWithFirstId ==
    \E i \in 1..Len(stdin.old_string) :
        /\ IsOpeningMarker(stdin.old_string[i])
        /\ \A j \in 1..(i - 1) : ~IsOpeningMarker(stdin.old_string[j])
        /\ stdout = <<Msg("decision-block", <<"opening", MarkerId(stdin.old_string[i])>>, 0, 0)>>

\* the closing marker that old_string had is gone from new_string
ClosingRemoved == has_closing(stdin.old_string) /\ ~has_closing(stdin.new_string)

\* C6: an Edit that removes the closing marker while the opening marker is in
\* both texts or in neither is blocked.  The opening marker counts as kept
\* whether or not a bare prefix <!-- snippet: is taken for a marker.
C6_ClosingRemovalBlocks ==
    (EditDone /\ ClosingRemoved
              /\ (HasOpeningMarker(stdin.old_string) <=> HasOpeningMarker(stdin.new_string))
              /\ (has_opening(stdin.old_string) <=> has_opening(stdin.new_string)))
        => (verdict = "block" /\ BlockDecision)

WholeBlockRemoved ==
    /\ HasOpeningMarker(stdin.old_string) /\ has_closing(stdin.old_string)
    /\ ~HasOpeningMarker(stdin.new_string) /\ ~has_closing(stdin.new_string)

AllowedSilently == exit_code = 0 /\ stdout = <<>> /\ stderr = <<>>

\* the first rule ended the hook: no later rule was evaluated
DecidedByCase1 == steps = <<"start", "gate", "case1">>

RECURSIVE WellBracketed(_, _)
WellBracketed(text, inside) ==
    IF Len(text) = 0 THEN ~inside
    ELSE IF IsOpeningMarker(Head(text)) THEN ~inside /\ WellBracketed(Tail(text), TRUE)
    ELSE IF Head(text) = CloseMarker THEN inside /\ WellBracketed(Tail(text), FALSE)
    ELSE Head(text) = Code /\ WellBracketed(Tail(text), inside)

\* the texts strictly between each opening marker and its closing marker
RECURSIVE SnippetBodies(_, _, _)
SnippetBodies(text, inside, body) ==
    IF Len(text) = 0 THEN <<>>
    ELSE IF IsOpeningMarker(Head(text)) THEN SnippetBodies(Tail(text), TRUE, <<>>)
    ELSE IF Head(text) = CloseMarker
         THEN <<body>> \o SnippetBodies(Tail(text), FALSE, <<>>)
    ELSE SnippetBodies(Tail(text), inside, IF inside THEN Append(body, Head(text)) ELSE body)

SnippetWarning == \E i \in 1..Len(stderr) : stderr[i].kind = "warning-snippet"

\* the markers of a text, in order
MarkersOf(text) == SelectSeq(text, LAMBDA t : t # Code)

\* C9: an Edit that keeps both markers is never blocked; it is warned about
\* exactly when the text between the markers differs, and is silent when it
\* does not.  Stated for the edits that keep every marker in place and whose
\* texts are runs of complete snippet blocks, where the text between the
\* markers is the bodies of the blocks.
C9_WarnIffContentDiffers ==
    (EditDone /\ WellBracketed(stdin.old_string, FALSE) /\ WellBracketed(stdin.new_string, FALSE)
              /\ HasOpeningMarker(stdin.old_string)
              /\ MarkersOf(stdin.old_string) = MarkersOf(stdin.new_string))
        => /\ ~BlockDecision
           /\ exit_code = 0
           /\ SnippetWarning <=>
                (SnippetBodies(stdin.old_string, FALSE, <<>>)
                    # SnippetBodies(stdin.new_string, FALSE, <<>>))
           /\ ~SnippetWarning => stderr = <<>>

(***************************************************************************)
(* Claims about protect-test-assertions.py, checked under SpecAssert.      *)
(***************************************************************************)
AssertDone == Done /\ hook = ProtectTestAssertions /\ stdin.kind = "object"

\* the families whose count is lower in new_string than in old_string
FallenFamilies ==
    {n \in 1..Len(assertion_patterns) :
        CountMatches(n, stdin.new_string) < CountMatches(n, stdin.old_string)}

\* the message on the error stream names family n with its two counts
ReportsFamily(n) ==
    \E i \in 1..Len(stderr) :
        stderr[i] = Msg("blocked-assertion", <<"Removing", n>>,
                        CountMatches(n, stdin.old_string), CountMatches(n, stdin.new_string))

\* C10: an edit to a recognized test file with a non-empty old_string in which
\* the count of some pattern family falls is blocked with exit status 2, and
\* the message names a family whose count fell (the first of them in the
\* order of assertion_patterns) together with its count before and after,
\* whatever the counts of the other families do.
C10_AssertionRemovalBlocks ==
    (AssertDone /\ is_test_file(stdin.file_path) /\ stdin.old_string # <<>>
        /\ FallenFamilies # {})
        => /\ exit_code = 2
           /\ verdict = "block"
           /\ \E n \in FallenFamilies :
                  ReportsFamily(n) /\ \A other \in FallenFamilies : n <= other

\* Assert.Equal goes from 2 to 1 while [Fact] goes from 0 to 1: blocked, "2 -> 1"
C10_Witness ==
    /\ AssertDone /\ is_test_file(stdin.file_path)
    /\ stdin.old_string = <<AssertEqual, AssertEqual>>
    /\ stdin.new_string = <<AssertEqual, FactAttr>>
    /\ exit_code = 2
    /\ stderr = <<Msg("blocked-assertion", <<"Removing", 1>>, 2, 1)>>

(***************************************************************************)
(* Claims about all six hooks, checked under Spec.                         *)
(***************************************************************************)
\* the hooks that block through the exit status
ExitStatusBlockers == {BlockGitCommit, ProtectTestAssertions, CheckTestDouble}

\* C4 as stated: a Block verdict always leaves with status 2, the snippet
\* guard's two block cases included, and status 0 means Allow or Warn.
C4_Original ==
    (Done /\ hook \in Hooks)
        => /\ verdict = "block" => exit_code = 2
           /\ exit_code = 0 => verdict \in {"allow", "warn"}

\* C4: a Block verdict of the commit guard, the assertion guard or the
\* test-double guard leaves with status 2 and nothing on standard output; a
\* Block verdict of the snippet guard leaves with status 0 and a block decision
\* on standard output; no other hook blocks; and status 0 without a block
\* decision on standard output means the verdict is Allow or Warn.
C4_ExitCodeContract ==
    (Done /\ hook \in Hooks)
        => /\ (verdict = "block" /\ hook \in ExitStatusBlockers)
                  => (exit_code = 2 /\ stdout = <<>>)
           /\ (verdict = "block" /\ hook = ProtectSnippetMarkers)
                  => (exit_code = 0 /\ BlockDecision)
           /\ verdict = "block" => hook \in ExitStatusBlockers \cup {ProtectSnippetMarkers}
           /\ (exit_code = 0 /\ ~BlockDecision) => verdict \in {"allow", "warn"}
           /\ exit_code = 2 => verdict = "block"

\* the snippet guard blocks the removal of an opening marker with status 0
C4_Witness ==
    /\ Done
    /\ hook = ProtectSnippetMarkers
    /\ verdict = "block"
    /\ exit_code = 0
    /\ BlockDecision
    /\ stdin.old_string = <<OpenFoo>>
    /\ stdin.new_string = <<Code>>

\* C5: on a standard input that is not JSON every hook leaves with status 0
\* after its first step, having written nothing to standard output or to the
\* error stream and having read no transcript.
C5_FailOpenOnMalformedInput ==
    (Done /\ hook \in Hooks /\ stdin.kind \in {"malformed", "toodeep"})
        => /\ exit_code = 0
           /\ stdout = <<>>
           /\ stderr = <<>>
           /\ steps = <<"start">>
           /\ ~opened

(***************************************************************************)
(* Claims about the two blocking file guards, checked under SpecGuards.    *)
(***************************************************************************)
\* the test-area markers of the test-double guard (line 69)
DoubleMarkers == {"/Unit/", "/Tests/", "Test"}

\* file_path contains none of the markers
OutOfScope(file_path, markers) == \A m \in markers : ~PathHas(file_path, m)

\* the event of the running guard lies outside the guard's test area
GuardOutOfScope ==
    /\ Done
    /\ stdin.kind = "object"
    /\ \/ hook = ProtectTestAssertions /\ OutOfScope(stdin.file_path, test_indicators)
       \/ hook = CheckTestDouble /\ OutOfScope(stdin.file_path, DoubleMarkers)

\* C11: on an event whose file_path contains none of the guard's test-area
\* markers, the assertion-removal guard and the test-double guard leave with
\* status 0 at the gate, with nothing on standard output or the error stream,
\* whatever old_string, new_string and content hold.
C11_PathScopeGate ==
    GuardOutOfScope
        => /\ exit_code = 0
           /\ stdout = <<>>
           /\ stderr = <<>>
           /\ steps = <<"start", "gate">>

\* an edit that removes an assertion from a file outside the test area
C11_Witness ==
    /\ GuardOutOfScope
    /\ hook = ProtectTestAssertions
    /\ stdin.file_path = <<"src/", "Test", "Helper", ".cs">>
    /\ stdin.old_string = <<AssertEqual, AssertEqual>>
    /\ stdin.new_string = <<AssertEqual>>
    /\ exit_code = 0

(***************************************************************************)
(* Claims about the two warning hooks, checked under SpecWarn.             *)
(***************************************************************************)
WarnDone == Done /\ stdin.kind = "object" /\ hook \in {WarnCommentedCode, WarnDocsCode}

\* the hook's classifier ran on the text and matched
ClassifierMatched ==
    /\ check_content(stdin) # <<>>
    /\ \/ /\ hook = WarnCommentedCode
          /\ is_code_file(stdin.file_path)
          /\ check_commented_code(check_content(stdin)).warn
       \/ /\ hook = WarnDocsCode
          /\ is_docs_markdown(stdin.file_path)
          /\ check_for_code_blocks(check_content(stdin)).warn

\* the error stream holds one warning and nothing else
OneWarning ==
    /\ Len(stderr) = 1
    /\ stderr[1].kind \in {"warning-commented-code", "warning-docs-code"}

SecondDone == Done /\ hook \in Hooks /\ previous.ran /\ FileRead = previous.file

\* C13: two invocations of a hook on the same standard input (and, for the
\* commit guard, the same transcript file) leave with the same exit status and
\* the same text on standard output and on the error stream.
C13_Deterministic ==
    SecondDone
        => /\ exit_code = previous.exit_code
           /\ stdout = previous.stdout
           /\ stderr = previous.stderr

(***************************************************************************)
(* Claims about the transcript scan of block-git-commit.py, checked under  *)
(* SpecGit.                                                                *)
(***************************************************************************)
\* C14: whatever lines the transcript holds, the scan of a commit/push/amend
\* command skips every line that is not a well-formed user record and goes on:
\* the hook leaves with status 0 or 2, and with status 0 when a requesting
\* user record stands anywhere among the lines.
C14_TranscriptRobust ==
    (CommitCommandDone /\ TranscriptRead)
        => /\ exit_code \in {0, 2}
           /\ HasRequestingUserRecord => (exit_code = 0 /\ verdict = "allow")

\* the verdict of the guard on a commit/push/amend command against a readable
\* transcript with the lines ls: allow exactly when the scan returns True
AllowsAgainst(ls) == ScanFrom(ls, 1, {}, 0).res = "match"

\* the lines ls in another order
Reorderings(ls) ==
    {[i \in 1..Len(ls) |-> ls[p[i]]] :
        p \in {q \in [1..Len(ls) -> 1..Len(ls)] : \A i, j \in 1..Len(ls) : q[i] = q[j] => i = j}}

\* the lines from position k + 1 on are well-formed records
AppendedWellFormed(k) == \A j \in (k + 1)..Len(lines) : lines[j].json = "object"

\* the first part of C15: what a transcript allows, every transcript that
\* appends well-formed records to it allows, for every commit/push/amend command
MonotoneAllow ==
    (CommitCommandDone /\ TranscriptRead)
        => \A k \in 0..Len(lines) :
              (AllowsAgainst(SubSeq(lines, 1, k)) /\ AppendedWellFormed(k))
                  => (exit_code = 0 /\ verdict = "allow")

\* C15: an allow is never withdrawn by records appended to the transcript nor
\* by the command that comes later, and the verdict is the same for every order
\* of the transcript's records.
C15_MonotoneAuthorization ==
    /\ MonotoneAllow
    /\ (CommitCommandDone /\ TranscriptRead)
           => \A other \in Reorderings(lines) : (exit_code = 0) <=> AllowsAgainst(other)

====
